---- MODULE Spec2Model ----
(***************************************************************************)
(* blart: a supervisor that starts a child process, signals it after a     *)
(* delay when watched files change (signalDebounce), relays the signals it *)
(* receives to the child and, on a termination signal, runs a two-stage    *)
(* shutdown (main).  Time is discrete: one unit of `now' is one second in  *)
(* the shutdown sequence (5 s, 1 s) and one unit of the -d delay.  Steps   *)
(* that do not block take no time; sleeps and timers expire exactly.       *)
(***************************************************************************)
EXTENDS Integers, Sequences, FiniteSets

VARIABLES
    now,          \* the clock
    horizon,      \* the time up to which the run is explored
    delay,        \* signalDebounce's delay parameter (the -d flag)
    process,      \* signalDebounce's process parameter: "nil" or "live"
    sched0,       \* the times of the notify() calls given to the debouncer
    sched,        \* the calls of sched0 still to be made
    cpc,          \* each notify() caller: "idle" or "broadcast"
    evOp,         \* the operation of the event the aggregator holds
    dpc,          \* the dispatcher goroutine: "top", "wait", "woken", "sleep", "crashed"
    mu,           \* cond.L is locked
    sleepUntil,   \* the end of the dispatcher's time.Sleep
    idleAtFirst,  \* the dispatcher was parked in Wait at the first Broadcast
    nBroadcast,   \* Broadcast calls completed
    wakeTimes,    \* times of the Broadcasts that woke the dispatcher
    fireTimes,    \* times the dispatcher reached line 51 (the fire step)
    sigTimes,     \* times the dispatcher called process.Signal(sig)
    nEvents,      \* events taken from watcher.Events
    nErrors,      \* errors taken from watcher.Errors
    nRewatch,     \* Remove+Add re-registrations after a rename
    chanC,        \* the buffer of channel c (capacity 1)
    rsig,         \* the relay's variable sig
    rpc,          \* the relay goroutine's position
    timerEnd,     \* expiry of the relay's pending time.After
    wpc,          \* the child waiter: "waiting", "send", "end"
    mainPc,       \* the main goroutine: "start", "recv" (blocked in <-done), "none"
    recvq,        \* the goroutines blocked receiving from done, in arrival order
    terminated,   \* the supervisor process has exited
    exitStatus,   \* its exit status, once terminated
    recvd,        \* how many of each signal were delivered to the supervisor
    nDropped,     \* signals signal.Notify could not put in c
    forwarded,    \* how many of each signal the relay passed to the child
    nGraceTimers, \* time.After(countdown) timers started
    nForcedKills, \* cmd.Process.Signal(os.Kill) calls of the shutdown sequence
    deadSignals,  \* Signal calls made after the child had exited
    exitInGrace,  \* the child exited after a termination signal and before the 5 s deadline
    graceExpired, \* the 5 s deadline elapsed with the child still running
    termT,        \* when the relay took the termination signal it is handling
    raceEnds,     \* how each select of the shutdown sequence ended: "done" or "timer"
    unreported,   \* a Broadcast was made and no signal has been sent since
    evAfterErr    \* events taken from watcher.Events after an error was taken

confVars == <<horizon, delay, process, sched0>>
debVars == <<dpc, mu, sleepUntil, idleAtFirst, nBroadcast, wakeTimes, fireTimes, sigTimes>>
aggVars == <<nEvents, nErrors, nRewatch, evOp>>
relayVars == <<chanC, rsig, rpc, timerEnd, recvd, nDropped, forwarded,
               nGraceTimers, nForcedKills, graceExpired>>
endVars == <<wpc, mainPc, recvq, terminated, exitStatus, exitInGrace>>
vars == <<now, confVars, sched, cpc, debVars, aggVars, relayVars, endVars, deadSignals,
          termT, raceEnds, unreported, evAfterErr>>

(* ------------------------------ bounds -------------------------------- *)
MaxTime == 7        \* horizon of a run of the whole supervisor
MaxSlack == 1       \* time explored after the last possible fire of a schedule
MaxBurst == 3       \* longest enumerated schedule of notify() calls
MaxCallTime == 4    \* latest call time of an enumerated schedule
MaxInputs == 3      \* inputs (watcher events and errors, signals) delivered in a run
NumCallers == 2     \* concurrent notify() callers of the debouncer

(* ------------------------- program constants -------------------------- *)
Graceful == 5       \* countdown := 5 * time.Second
Forced == 1         \* time.After(time.Second)
ChanCap == 1        \* make(chan os.Signal, 1)

Delays == {2, 3, 20}
MainDelays == {1, 2}
Scenario == <<0, 1, 2, 15, 16>>       \* t = 0,10,20,150,160 ms in units of 10 ms
ScenarioDelay == CHOOSE d \in Delays : \A e \in Delays : e <= d

Callers == 1..NumCallers
Aggregator == CHOOSE c \in Callers : \A d \in Callers : c <= d
Ops == {"write", "rename"}
Signals == {"INT", "TERM", "HUP"}     \* SIGKILL cannot be delivered to a handler
\* a switch whose shutdown branch is taken for every signal
TermClassAny(s) == s \in {"INT", "KILL", "TERM", "HUP"}

TermClass(s) == s \in {"INT", "KILL", "TERM"}

Last(s) == s[Len(s)]

Total(f) == f["INT"] + f["TERM"] + f["HUP"]

(* --------------------------- notify() inputs --------------------------- *)
NonDecreasing(s) == \A i \in 1..(Len(s) - 1) : s[i] <= s[i + 1]
ShortSchedules ==
    UNION {{s \in [1..n -> 0..MaxCallTime] : NonDecreasing(s)} : n \in 1..MaxBurst}
Schedules == ShortSchedules \cup {Scenario}
Horizon(s, d) == Last(s) + d + MaxSlack

(* ------------------------------- states -------------------------------- *)
InitCommon ==
    /\ now = 0
    /\ cpc = [c \in Callers |-> "idle"]
    /\ evOp = "none"
    /\ dpc = "top"              \* the goroutine of line 41 is started
    /\ mu = TRUE                \* cond.L.Lock() of line 39
    /\ sleepUntil = 0
    /\ idleAtFirst = FALSE
    /\ nBroadcast = 0
    /\ wakeTimes = <<>> /\ fireTimes = <<>> /\ sigTimes = <<>>
    /\ nEvents = 0 /\ nErrors = 0 /\ nRewatch = 0
    /\ chanC = <<>> /\ rsig = "none" /\ rpc = "recv" /\ timerEnd = 0
    /\ wpc = "waiting"
    /\ recvq = <<>>
    /\ terminated = FALSE /\ exitStatus = 0
    /\ recvd = [s \in Signals |-> 0] /\ nDropped = 0 /\ forwarded = [s \in Signals |-> 0]
    /\ nGraceTimers = 0 /\ nForcedKills = 0 /\ deadSignals = 0
    /\ exitInGrace = FALSE /\ graceExpired = FALSE
    /\ termT = 0 /\ raceEnds = <<>> /\ unreported = FALSE /\ evAfterErr = 0

\* main() after cmd.Start() succeeded and its goroutines are started
Init ==
    /\ InitCommon
    /\ delay \in MainDelays
    /\ process = "live"
    /\ sched0 = <<>> /\ sched = <<>>
    /\ horizon = MaxTime
    /\ mainPc = "start"

\* signalDebounce(process, sig, delay) alone, called on by a timed sequence of
\* notify() calls made by any of its callers
InitDebounce ==
    /\ InitCommon
    /\ delay \in Delays
    /\ process \in {"nil", "live"}
    /\ sched0 \in Schedules
    /\ sched = sched0
    /\ horizon = Horizon(sched0, delay)
    /\ mainPc = "none"

\* inputs delivered so far
Inputs == nEvents + nErrors + Total(recvd)

ChildDead == wpc # "waiting"
SignalDead == IF ChildDead THEN deadSignals + 1 ELSE deadSignals

(* ------------------------------ debouncer ------------------------------ *)
\* a Broadcast that also restarts a sleep in progress (a resetting debounce)
CondBroadcastRearm ==
    /\ dpc' = IF dpc = "wait" THEN "woken" ELSE dpc
    /\ wakeTimes' = IF dpc = "wait" THEN Append(wakeTimes, now) ELSE wakeTimes
    /\ idleAtFirst' = IF nBroadcast = 0 THEN dpc = "wait" ELSE idleAtFirst
    /\ nBroadcast' = nBroadcast + 1
    /\ sleepUntil' = IF dpc = "sleep" THEN now + delay ELSE sleepUntil
    /\ unreported' = TRUE
    /\ UNCHANGED <<mu, fireTimes, sigTimes>>

\* cond.Broadcast(): wakes the dispatcher if it is parked in Wait, and takes no lock
CondBroadcast ==
    /\ dpc' = IF dpc = "wait" THEN "woken" ELSE dpc
    /\ wakeTimes' = IF dpc = "wait" THEN Append(wakeTimes, now) ELSE wakeTimes
    /\ idleAtFirst' = IF nBroadcast = 0 THEN dpc = "wait" ELSE idleAtFirst
    /\ nBroadcast' = nBroadcast + 1
    /\ unreported' = TRUE
    /\ UNCHANGED <<mu, sleepUntil, fireTimes, sigTimes>>

\* a caller of the debouncer starts a notify() at the next scheduled time
CallNotify(c) ==
    /\ ~terminated
    /\ sched # <<>> /\ Head(sched) = now
    /\ cpc[c] = "idle"
    /\ cpc' = [cpc EXCEPT ![c] = "broadcast"]
    /\ sched' = Tail(sched)
    /\ UNCHANGED <<termT, raceEnds, unreported, evAfterErr>>
    /\ UNCHANGED <<now, confVars, debVars, aggVars, relayVars, endVars, deadSignals>>

\* a notify() that takes cond.L around the Broadcast
BroadcastLocked(c) ==
    /\ ~terminated
    /\ cpc[c] = "broadcast"
    /\ ~mu
    /\ CondBroadcast
    /\ cpc' = [cpc EXCEPT ![c] = "idle"]
    /\ nRewatch' = IF evOp = "rename" THEN nRewatch + 1 ELSE nRewatch
    /\ evOp' = "none"
    /\ UNCHANGED <<termT, raceEnds, evAfterErr>>
    /\ UNCHANGED <<now, confVars, sched, nEvents, nErrors, relayVars, endVars, deadSignals>>

\* lines 138-144: Broadcast, then the re-registration of a renamed path
Broadcast(c) ==
    /\ ~terminated
    /\ cpc[c] = "broadcast"
    /\ CondBroadcast
    /\ cpc' = [cpc EXCEPT ![c] = "idle"]
    /\ nRewatch' = IF evOp = "rename" THEN nRewatch + 1 ELSE nRewatch
    /\ evOp' = "none"
    /\ UNCHANGED <<termT, raceEnds, evAfterErr>>
    /\ UNCHANGED <<now, confVars, sched, nEvents, nErrors, relayVars, endVars, deadSignals>>
\* a dispatcher loop that goes on to time.Sleep without parking in cond.Wait()
DispWaitNoPark ==
    /\ ~terminated
    /\ dpc = "top"
    /\ dpc' = "woken" /\ mu' = FALSE
    /\ UNCHANGED <<termT, raceEnds, unreported, evAfterErr>>
    /\ UNCHANGED <<now, confVars, sched, cpc, sleepUntil, idleAtFirst, nBroadcast,
                   wakeTimes, fireTimes, sigTimes, aggVars, relayVars, endVars, deadSignals>>

\* a signalDebounce without the cond.L.Lock() of line 39
DispWaitUnlocked ==
    /\ ~terminated
    /\ dpc = "top"
    /\ dpc' = "crashed" /\ mu' = FALSE
    /\ UNCHANGED <<termT, raceEnds, unreported, evAfterErr>>
    /\ UNCHANGED <<now, confVars, sched, cpc, sleepUntil, idleAtFirst, nBroadcast,
                   wakeTimes, fireTimes, sigTimes, aggVars, relayVars, endVars, deadSignals>>

\* line 49, first half of cond.Wait(): join the notify list, unlock cond.L, park
DispWait ==
    /\ ~terminated
    /\ dpc = "top"
    /\ IF mu THEN dpc' = "wait" /\ mu' = FALSE
             ELSE dpc' = "crashed" /\ mu' = mu      \* unlock of unlocked mutex
    /\ UNCHANGED <<termT, raceEnds, unreported, evAfterErr>>
    /\ UNCHANGED <<now, confVars, sched, cpc, sleepUntil, idleAtFirst, nBroadcast,
                   wakeTimes, fireTimes, sigTimes, aggVars, relayVars, endVars, deadSignals>>

\* a dispatcher without the time.Sleep(delay) of line 50
DispLockNoSleep ==
    /\ ~terminated
    /\ dpc = "woken"
    /\ ~mu
    /\ mu' = TRUE
    /\ dpc' = "sleep"
    /\ sleepUntil' = now
    /\ UNCHANGED <<termT, raceEnds, unreported, evAfterErr>>
    /\ UNCHANGED <<now, confVars, sched, cpc, idleAtFirst, nBroadcast,
                   wakeTimes, fireTimes, sigTimes, aggVars, relayVars, endVars, deadSignals>>

\* lines 49-50: woken, cond.Wait() re-locks cond.L and time.Sleep(delay) starts
DispLock ==
    /\ ~terminated
    /\ dpc = "woken"
    /\ ~mu
    /\ mu' = TRUE
    /\ dpc' = "sleep"
    /\ sleepUntil' = now + delay
    /\ UNCHANGED <<termT, raceEnds, unreported, evAfterErr>>
    /\ UNCHANGED <<now, confVars, sched, cpc, idleAtFirst, nBroadcast,
                   wakeTimes, fireTimes, sigTimes, aggVars, relayVars, endVars, deadSignals>>

\* a dispatcher whose cond.Wait() is outside the loop: after a fire it sleeps again
DispFireNoWait ==
    /\ ~terminated
    /\ dpc = "sleep"
    /\ now >= sleepUntil
    /\ fireTimes' = Append(fireTimes, now)
    /\ IF process # "nil"
         THEN sigTimes' = Append(sigTimes, now) /\ deadSignals' = SignalDead
         ELSE UNCHANGED <<sigTimes, deadSignals>>
    /\ sleepUntil' = now + delay
    /\ unreported' = (unreported /\ process = "nil")
    /\ UNCHANGED <<termT, raceEnds, evAfterErr>>
    /\ UNCHANGED <<now, confVars, sched, cpc, dpc, mu, idleAtFirst, nBroadcast,
                   wakeTimes, aggVars, relayVars, endVars>>

\* a dispatcher without the process != nil test of line 51: Signal on a nil
\* *os.Process panics
DispFireNoNilTest ==
    /\ ~terminated
    /\ dpc = "sleep"
    /\ now >= sleepUntil
    /\ fireTimes' = Append(fireTimes, now)
    /\ IF process # "nil"
         THEN sigTimes' = Append(sigTimes, now) /\ deadSignals' = SignalDead /\ dpc' = "top"
         ELSE dpc' = "crashed" /\ UNCHANGED <<sigTimes, deadSignals>>
    /\ unreported' = (unreported /\ process = "nil")
    /\ UNCHANGED <<termT, raceEnds, evAfterErr>>
    /\ UNCHANGED <<now, confVars, sched, cpc, mu, sleepUntil, idleAtFirst, nBroadcast,
                   wakeTimes, aggVars, relayVars, endVars>>

\* lines 50-55: the sleep ends, the signal is sent if there is a process, loop
DispFire ==
    /\ ~terminated
    /\ dpc = "sleep"
    /\ now >= sleepUntil
    /\ fireTimes' = Append(fireTimes, now)
    /\ IF process # "nil"
         THEN sigTimes' = Append(sigTimes, now) /\ deadSignals' = SignalDead
         ELSE UNCHANGED <<sigTimes, deadSignals>>
    /\ dpc' = "top"
    /\ unreported' = (unreported /\ process = "nil")
    /\ UNCHANGED <<termT, raceEnds, evAfterErr>>
    /\ UNCHANGED <<now, confVars, sched, cpc, mu, sleepUntil, idleAtFirst, nBroadcast,
                   wakeTimes, aggVars, relayVars, endVars>>

(* ------------------------- change aggregator --------------------------- *)
\* line 134: an event is taken from watcher.Events
AggRecvEvent(op) ==
    /\ ~terminated
    /\ mainPc # "none"
    /\ cpc[Aggregator] = "idle"
    /\ Inputs < MaxInputs
    /\ nEvents' = nEvents + 1
    /\ evOp' = op
    /\ cpc' = [cpc EXCEPT ![Aggregator] = "broadcast"]
    /\ evAfterErr' = IF nErrors > 0 THEN evAfterErr + 1 ELSE evAfterErr
    /\ UNCHANGED <<termT, raceEnds, unreported>>
    /\ UNCHANGED <<now, confVars, sched, debVars, nErrors, nRewatch, relayVars,
                   endVars, deadSignals>>
\* an aggregator that returns from its goroutine on a watcher error
AggErrorStops ==
    /\ ~terminated
    /\ mainPc # "none"
    /\ cpc[Aggregator] = "idle"
    /\ Inputs < MaxInputs
    /\ nErrors' = nErrors + 1
    /\ cpc' = [cpc EXCEPT ![Aggregator] = "stopped"]
    /\ UNCHANGED <<termT, raceEnds, unreported, evAfterErr>>
    /\ UNCHANGED <<now, confVars, sched, debVars, nEvents, nRewatch, evOp,
                   relayVars, endVars, deadSignals>>

\* lines 145-146: an error is taken from watcher.Errors and logged
AggError ==
    /\ ~terminated
    /\ mainPc # "none"
    /\ cpc[Aggregator] = "idle"
    /\ Inputs < MaxInputs
    /\ nErrors' = nErrors + 1
    /\ UNCHANGED <<termT, raceEnds, unreported, evAfterErr>>
    /\ UNCHANGED <<now, confVars, sched, cpc, debVars, nEvents, nRewatch, evOp,
                   relayVars, endVars, deadSignals>>
(* ---------------------- signal relay and shutdown ---------------------- *)
\* lines 152-153: signal.Notify(c) delivers without blocking; a signal that
\* finds the buffer of c full is dropped
SignalArrives(s) ==
    /\ ~terminated
    /\ mainPc # "none"
    /\ Inputs < MaxInputs
    /\ recvd' = [recvd EXCEPT ![s] = @ + 1]
    /\ IF Len(chanC) < ChanCap
         THEN chanC' = Append(chanC, s) /\ nDropped' = nDropped
         ELSE chanC' = chanC /\ nDropped' = nDropped + 1
    /\ UNCHANGED <<termT, raceEnds, unreported, evAfterErr>>
    /\ UNCHANGED <<now, confVars, sched, cpc, debVars, aggVars, rsig, rpc, timerEnd,
                   forwarded, nGraceTimers, nForcedKills, graceExpired, endVars, deadSignals>>

\* line 157: sig = <-c
RelayRecv ==
    /\ ~terminated
    /\ rpc = "recv"
    /\ chanC # <<>>
    /\ rsig' = Head(chanC)
    /\ chanC' = Tail(chanC)
    /\ rpc' = "forward"
    /\ termT' = IF TermClass(Head(chanC)) THEN now ELSE termT
    /\ UNCHANGED <<raceEnds, unreported, evAfterErr>>
    /\ UNCHANGED <<now, confVars, sched, cpc, debVars, aggVars, timerEnd, recvd, nDropped,
                   forwarded, nGraceTimers, nForcedKills, graceExpired, endVars, deadSignals>>
\* a relay that ends the supervisor when cmd.Process.Signal returns an error
RelayForwardFatal ==
    /\ ~terminated
    /\ rpc = "forward"
    /\ forwarded' = [forwarded EXCEPT ![rsig] = @ + 1]
    /\ deadSignals' = SignalDead
    /\ rpc' = "switch"
    /\ terminated' = ChildDead
    /\ exitStatus' = IF ChildDead THEN 1 ELSE exitStatus
    /\ UNCHANGED <<termT, raceEnds, unreported, evAfterErr>>
    /\ UNCHANGED <<now, confVars, sched, cpc, debVars, aggVars, chanC, rsig, timerEnd, recvd,
                   nDropped, nGraceTimers, nForcedKills, graceExpired, wpc, mainPc, recvq,
                   exitInGrace>>

\* a relay that passes on only the signals that do not start the shutdown
RelayForwardOthersOnly ==
    /\ ~terminated
    /\ rpc = "forward"
    /\ forwarded' = IF TermClass(rsig) THEN forwarded ELSE [forwarded EXCEPT ![rsig] = @ + 1]
    /\ deadSignals' = SignalDead
    /\ rpc' = "switch"
    /\ UNCHANGED <<termT, raceEnds, unreported, evAfterErr>>
    /\ UNCHANGED <<now, confVars, sched, cpc, debVars, aggVars, chanC, rsig, timerEnd, recvd,
                   nDropped, nGraceTimers, nForcedKills, graceExpired, endVars>>

\* line 158: cmd.Process.Signal(sig)
RelayForward ==
    /\ ~terminated
    /\ rpc = "forward"
    /\ forwarded' = [forwarded EXCEPT ![rsig] = @ + 1]
    /\ deadSignals' = SignalDead
    /\ rpc' = "switch"
    /\ UNCHANGED <<termT, raceEnds, unreported, evAfterErr>>
    /\ UNCHANGED <<now, confVars, sched, cpc, debVars, aggVars, chanC, rsig, timerEnd, recvd,
                   nDropped, nGraceTimers, nForcedKills, graceExpired, endVars>>
\* a relay that returns after a signal outside the termination class
RelaySwitchReturn ==
    /\ ~terminated
    /\ rpc = "switch"
    /\ IF TermClass(rsig)
         THEN /\ rpc' = "race1"
              /\ timerEnd' = now + Graceful
              /\ nGraceTimers' = nGraceTimers + 1
              /\ recvq' = Append(recvq, "relay")
         ELSE /\ rpc' = "returned"
              /\ UNCHANGED <<timerEnd, nGraceTimers, recvq>>
    /\ UNCHANGED <<termT, raceEnds, unreported, evAfterErr>>
    /\ UNCHANGED <<now, confVars, sched, cpc, debVars, aggVars, chanC, rsig, recvd, nDropped,
                   forwarded, nForcedKills, graceExpired, wpc, mainPc, terminated,
                   exitStatus, exitInGrace, deadSignals>>

\* lines 159-169: a termination signal starts the countdown and the relay blocks
\* in the first select; any other signal returns the relay to line 157
RelaySwitch ==
    /\ ~terminated
    /\ rpc = "switch"
    /\ IF TermClass(rsig)
         THEN /\ rpc' = "race1"
              /\ timerEnd' = now + Graceful
              /\ nGraceTimers' = nGraceTimers + 1
              /\ recvq' = Append(recvq, "relay")
         ELSE /\ rpc' = "recv"
              /\ UNCHANGED <<timerEnd, nGraceTimers, recvq>>
    /\ UNCHANGED <<termT, raceEnds, unreported, evAfterErr>>
    /\ UNCHANGED <<now, confVars, sched, cpc, debVars, aggVars, chanC, rsig, recvd, nDropped,
                   forwarded, nForcedKills, graceExpired, wpc, mainPc, terminated,
                   exitStatus, exitInGrace, deadSignals>>

DropRelay(q) == SelectSeq(q, LAMBDA g : g # "relay")

\* line 169: the countdown expires first
RelayTimeout1 ==
    /\ ~terminated
    /\ rpc = "race1"
    /\ now >= timerEnd
    /\ rpc' = "kill"
    /\ recvq' = DropRelay(recvq)
    /\ graceExpired' = ~ChildDead
    /\ raceEnds' = Append(raceEnds, "timer")
    /\ UNCHANGED <<termT, unreported, evAfterErr>>
    /\ UNCHANGED <<now, confVars, sched, cpc, debVars, aggVars, chanC, rsig, timerEnd, recvd,
                   nDropped, forwarded, nGraceTimers, nForcedKills, wpc, mainPc, terminated,
                   exitStatus, exitInGrace, deadSignals>>
\* a relay whose second select waits for the countdown again, not one second
RelayKillLongWait ==
    /\ ~terminated
    /\ rpc = "kill"
    /\ nForcedKills' = nForcedKills + 1
    /\ deadSignals' = SignalDead
    /\ timerEnd' = now + Graceful
    /\ rpc' = "race2"
    /\ recvq' = Append(recvq, "relay")
    /\ UNCHANGED <<termT, raceEnds, unreported, evAfterErr>>
    /\ UNCHANGED <<now, confVars, sched, cpc, debVars, aggVars, chanC, rsig, recvd, nDropped,
                   forwarded, nGraceTimers, graceExpired, wpc, mainPc, terminated,
                   exitStatus, exitInGrace>>

\* lines 172-178: cmd.Process.Signal(os.Kill), then the second select
RelayKill ==
    /\ ~terminated
    /\ rpc = "kill"
    /\ nForcedKills' = nForcedKills + 1
    /\ deadSignals' = SignalDead
    /\ timerEnd' = now + Forced
    /\ rpc' = "race2"
    /\ recvq' = Append(recvq, "relay")
    /\ UNCHANGED <<termT, raceEnds, unreported, evAfterErr>>
    /\ UNCHANGED <<now, confVars, sched, cpc, debVars, aggVars, chanC, rsig, recvd, nDropped,
                   forwarded, nGraceTimers, graceExpired, wpc, mainPc, terminated,
                   exitStatus, exitInGrace>>

\* line 178: the second timer expires first
RelayTimeout2 ==
    /\ ~terminated
    /\ rpc = "race2"
    /\ now >= timerEnd
    /\ rpc' = "exit"
    /\ recvq' = DropRelay(recvq)
    /\ raceEnds' = Append(raceEnds, "timer")
    /\ UNCHANGED <<termT, unreported, evAfterErr>>
    /\ UNCHANGED <<now, confVars, sched, cpc, debVars, aggVars, chanC, rsig, timerEnd, recvd,
                   nDropped, forwarded, nGraceTimers, nForcedKills, graceExpired, wpc, mainPc,
                   terminated, exitStatus, exitInGrace, deadSignals>>

\* a relay without the os.Exit(1) of line 183: it returns to line 157
RelayNoExit ==
    /\ ~terminated
    /\ rpc = "exit"
    /\ rpc' = "recv"
    /\ UNCHANGED <<termT, raceEnds, unreported, evAfterErr>>
    /\ UNCHANGED <<now, confVars, sched, cpc, debVars, aggVars, chanC, rsig, timerEnd, recvd,
                   nDropped, forwarded, nGraceTimers, nForcedKills, graceExpired, endVars,
                   deadSignals>>

\* lines 181-183: os.Exit(1)
RelayExit ==
    /\ ~terminated
    /\ rpc = "exit"
    /\ terminated' = TRUE
    /\ exitStatus' = 1
    /\ UNCHANGED <<termT, raceEnds, unreported, evAfterErr>>
    /\ UNCHANGED <<now, confVars, sched, cpc, debVars, aggVars, relayVars, wpc, mainPc, recvq,
                   exitInGrace, deadSignals>>

\* line 121: the child exits and cmd.Wait() returns; the waiter goes on to line 122
ChildExit ==
    /\ ~terminated
    /\ mainPc # "none"
    /\ wpc = "waiting"
    /\ wpc' = "send"
    /\ exitInGrace' = (rpc = "race1" /\ now < timerEnd)
    /\ UNCHANGED <<termT, raceEnds, unreported, evAfterErr>>
    /\ UNCHANGED <<now, confVars, sched, cpc, debVars, aggVars, relayVars, mainPc, recvq,
                   terminated, exitStatus, deadSignals>>

\* line 188: main blocks in <-done
MainRecv ==
    /\ ~terminated
    /\ mainPc = "start"
    /\ mainPc' = "recv"
    /\ recvq' = Append(recvq, "main")
    /\ UNCHANGED <<termT, raceEnds, unreported, evAfterErr>>
    /\ UNCHANGED <<now, confVars, sched, cpc, debVars, aggVars, relayVars, wpc, terminated,
                   exitStatus, exitInGrace, deadSignals>>

\* line 122 meets line 188: main takes the value, returns, and the process exits 0
DoneToMain ==
    /\ ~terminated
    /\ wpc = "send"
    /\ recvq # <<>> /\ Head(recvq) = "main"
    /\ wpc' = "end"
    /\ recvq' = Tail(recvq)
    /\ terminated' = TRUE
    /\ exitStatus' = 0
    /\ UNCHANGED <<termT, raceEnds, unreported, evAfterErr>>
    /\ UNCHANGED <<now, confVars, sched, cpc, debVars, aggVars, relayVars, mainPc,
                   exitInGrace, deadSignals>>

\* line 122 meets line 168 or line 177: the relay's select takes the value
DoneToRelay ==
    /\ ~terminated
    /\ wpc = "send"
    /\ recvq # <<>> /\ Head(recvq) = "relay"
    /\ wpc' = "end"
    /\ recvq' = Tail(recvq)
    /\ rpc' = IF rpc = "race1" THEN "kill" ELSE "exit"
    /\ raceEnds' = Append(raceEnds, "done")
    /\ UNCHANGED <<termT, unreported, evAfterErr>>
    /\ UNCHANGED <<now, confVars, sched, cpc, debVars, aggVars, chanC, rsig, timerEnd, recvd,
                   nDropped, forwarded, nGraceTimers, nForcedKills, graceExpired, mainPc,
                   terminated, exitStatus, exitInGrace, deadSignals>>

(* -------------------------------- time --------------------------------- *)
\* a goroutine can take a step that does not block
Urgent ==
    \/ dpc \in {"top", "woken"}
    \/ \E c \in Callers : cpc[c] = "broadcast"
    \/ rpc \in {"forward", "switch", "kill", "exit"}
    \/ rpc = "recv" /\ chanC # <<>>
    \/ mainPc = "start"
    \/ wpc = "send" /\ recvq # <<>>

\* a sleep, a timer or a scheduled call is due now
TimerDue ==
    \/ dpc = "sleep" /\ now >= sleepUntil
    \/ rpc \in {"race1", "race2"} /\ now >= timerEnd
    \/ sched # <<>> /\ Head(sched) <= now

\* time is observed only while a sleep or a timer runs, or a schedule of calls
\* is being played; otherwise a run is the same run with the clock stopped
Timed ==
    \/ dpc = "sleep"
    \/ rpc \in {"race1", "race2"}
    \/ sched0 # <<>>

Tick ==
    /\ ~terminated
    /\ ~Urgent
    /\ ~TimerDue
    /\ Timed
    /\ now < horizon
    /\ now' = now + 1
    /\ UNCHANGED <<termT, raceEnds, unreported, evAfterErr>>
    /\ UNCHANGED <<confVars, sched, cpc, debVars, aggVars, relayVars, endVars, deadSignals>>

(* --------------------------- specifications ---------------------------- *)
Next ==
    \/ Tick
    \/ \E op \in Ops : AggRecvEvent(op)
    \/ AggError
    \/ Broadcast(Aggregator)
    \/ DispWait
    \/ DispLock
    \/ DispFire
    \/ \E s \in Signals : SignalArrives(s)
    \/ RelayRecv
    \/ RelayForward
    \/ RelaySwitch
    \/ RelayTimeout1
    \/ RelayKill
    \/ RelayTimeout2
    \/ RelayExit
    \/ ChildExit
    \/ MainRecv
    \/ DoneToMain
    \/ DoneToRelay

Spec == Init /\ [][Next]_vars

NextDebounce ==
    \/ Tick
    \/ \E c \in Callers : CallNotify(c)
    \/ \E c \in Callers : Broadcast(c)
    \/ DispWait
    \/ DispLock
    \/ DispFire

SpecDebounce == InitDebounce /\ [][NextDebounce]_vars

(* ------------------------------- claims -------------------------------- *)
GapsBelow(s, d) == \A i \in 1..(Len(s) - 1) : s[i + 1] - s[i] < d
WithinFirst(s, d) == \A i \in 1..Len(s) : s[i] < s[1] + d
AllCalled == sched = <<>> /\ nBroadcast = Len(sched0)
IdleBurst == process = "live" /\ idleAtFirst

\* C1 as stated: from an idle dispatcher, a sequence of notify() calls whose
\* consecutive calls are each less than delay apart, however long it lasts,
\* yields exactly one signal.
C1_OneSignalPerSpacedSequence ==
    (IdleBurst /\ GapsBelow(sched0, delay)) =>
        /\ Len(sigTimes) <= 1
        /\ (AllCalled /\ now > Last(sched0) + delay => Len(sigTimes) = 1)

\* C1 amended: from an idle dispatcher, a sequence of notify() calls that are
\* all made less than delay after the first call yields exactly one signal,
\* sent delay after the first call.
C1_OneSignalPerWindow ==
    (IdleBurst /\ WithinFirst(sched0, delay)) =>
        /\ Len(sigTimes) <= 1
        /\ \A i \in 1..Len(sigTimes) : sigTimes[i] = sched0[1] + delay
        /\ (now > sched0[1] + delay => Len(sigTimes) = 1)

C1_Witness ==
    /\ IdleBurst /\ WithinFirst(sched0, delay)
    /\ Len(sched0) >= 3 /\ Last(sched0) > sched0[1]
    /\ AllCalled
    /\ Len(sigTimes) = 1

ScenarioRun ==
    /\ sched0 = Scenario /\ delay = ScenarioDelay
    /\ IdleBurst

\* C2 as stated: delay 200 ms, calls at 0,10,20,150,160 ms to an idle
\* dispatcher: the only signal is sent delay after the last call (360 ms).
C2_SignalAfterLastCall ==
    ScenarioRun =>
        /\ \A i \in 1..Len(sigTimes) : sigTimes[i] = Last(Scenario) + delay
        /\ (now > Last(Scenario) + delay => Len(sigTimes) = 1)

\* C2 amended: delay 200 ms, calls at 0,10,20,150,160 ms to an idle
\* dispatcher: the only signal is sent delay after the first call (200 ms),
\* and none is sent at 360 ms.
C2_SignalAfterFirstCall ==
    ScenarioRun =>
        /\ \A i \in 1..Len(sigTimes) : sigTimes[i] = Scenario[1] + delay
        /\ (now > Scenario[1] + delay => Len(sigTimes) = 1)
        /\ (now > Last(Scenario) + delay => sigTimes = <<Scenario[1] + delay>>)

C2_Witness ==
    /\ ScenarioRun
    /\ AllCalled
    /\ now > Last(Scenario) + delay
    /\ sigTimes = <<Scenario[1] + delay>>

\* C7: every notify() that finds the dispatcher parked in Wait, also after a
\* completed fire, starts one cycle that sends exactly one signal, delay after
\* that notify().
C7_NewCycleAfterFire ==
    process = "live" =>
        /\ Len(sigTimes) <= Len(wakeTimes)
        /\ Len(wakeTimes) <= Len(sigTimes) + 1
        /\ \A i \in 1..Len(sigTimes) : sigTimes[i] = wakeTimes[i] + delay
        /\ (Len(wakeTimes) > Len(sigTimes) =>
                dpc \in {"woken", "sleep"} /\ now <= Last(wakeTimes) + delay)
        /\ (Len(wakeTimes) = Len(sigTimes) => dpc \in {"top", "wait"})

C7_Witness ==
    /\ process = "live"
    /\ Len(sigTimes) >= 2
    /\ wakeTimes[2] > sigTimes[1]
    /\ sigTimes[2] = wakeTimes[2] + delay

\* C8: a notify() never blocks: in every state of the dispatcher and of the
\* mutex, and with other callers inside notify(), a caller that has started
\* its Broadcast can complete it.
C8_NotifyNeverBlocks ==
    \A c \in Callers : cpc[c] = "broadcast" => ENABLED Broadcast(c)

C8_Witness ==
    /\ \A c \in Callers : cpc[c] = "broadcast"
    /\ dpc = "sleep" /\ mu
    /\ now < sleepUntil

\* C9: with a nil process a fire sends no signal and raises nothing, and the
\* dispatcher returns to Wait, so that later notify() calls start new cycles.
C9_NilProcessDrop ==
    process = "nil" =>
        /\ sigTimes = <<>>
        /\ dpc # "crashed"
        /\ Len(fireTimes) <= Len(wakeTimes)
        /\ Len(wakeTimes) <= Len(fireTimes) + 1
        /\ \A i \in 1..Len(fireTimes) : fireTimes[i] = wakeTimes[i] + delay
        /\ (Len(wakeTimes) = Len(fireTimes) => dpc \in {"top", "wait"})

C9_Witness ==
    /\ process = "nil"
    /\ Len(fireTimes) >= 2
    /\ wakeTimes[2] >= fireTimes[1]
    /\ sigTimes = <<>>

ShutdownStates == {"race1", "kill", "race2", "exit"}
Taken == Total(recvd) - nDropped - Len(chanC)

\* C3: every signal the supervisor receives is passed to the child exactly
\* once, also when it arrives while the shutdown sequence waits on a deadline;
\* none is dropped.
C3_EverySignalForwardedOnce ==
    /\ \A s \in Signals : forwarded[s] <= recvd[s]
    /\ (terminated /\ exitStatus = 1 =>
            nDropped = 0 /\ \A s \in Signals : forwarded[s] = recvd[s])

\* C4: when the child exits before the 5 s deadline of the shutdown sequence
\* elapses, no forced kill is sent and the supervisor exits with status 0.
C4_GracefulExitNoKill ==
    exitInGrace => nForcedKills = 0 /\ (terminated => exitStatus = 0)

\* C5: when the 5 s deadline elapses with the child running, the forced kill
\* is sent exactly once and the supervisor never exits with status 0 after it.
C5_ForcedKillThenNonZero ==
    (graceExpired /\ nForcedKills >= 1) =>
        nForcedKills = 1 /\ (terminated => exitStatus = 1)

\* C6: whatever signals arrive, at most one shutdown sequence runs: once a
\* termination signal is handled exactly one 5 s timer has been started, no
\* second one ever is, and at most one forced kill is sent.
C6_SingleShutdownSequence ==
    /\ nGraceTimers <= 1
    /\ nForcedKills <= 1
    /\ (rpc \in ShutdownStates <=> nGraceTimers = 1)
    /\ (rpc \in {"race2", "exit"} <=> nForcedKills = 1)

C6_Witness ==
    /\ recvd["TERM"] + recvd["INT"] >= 2
    /\ nGraceTimers = 1 /\ nForcedKills = 1
    /\ terminated /\ exitStatus = 1

\* C10: the relay passes each signal it takes to the child before anything
\* else: when the 5 s timer is started or the forced kill sent, the
\* termination signal that caused it has already been sent to the child.
C10_ForwardBeforeShutdown ==
    /\ (rpc = "forward" => Total(forwarded) = Taken - 1)
    /\ (rpc # "forward" => Total(forwarded) = Taken)
    /\ (nGraceTimers >= 1 \/ nForcedKills >= 1 =>
            TermClass(rsig) /\ forwarded[rsig] >= 1)

C10_Witness ==
    /\ rpc = "race2"
    /\ TermClass(rsig) /\ forwarded[rsig] = 1
    /\ nGraceTimers = 1 /\ nForcedKills = 1

NoTermReceived == recvd["INT"] = 0 /\ recvd["TERM"] = 0
TermHandled == nGraceTimers >= 1 \/ (rpc \in {"forward", "switch"} /\ TermClass(rsig))

\* C11: when no termination signal has been received, no forced kill is ever
\* sent and the supervisor ends only by main returning after the child's exit,
\* with status 0; once the child has exited, main's return is the next thing
\* that happens, no time passes first.
C11_OwnExitStatusZero ==
    NoTermReceived =>
        /\ nForcedKills = 0 /\ nGraceTimers = 0
        /\ (terminated => exitStatus = 0 /\ wpc = "end")
        /\ (wpc = "end" => terminated)
        /\ (wpc = "send" => ENABLED (MainRecv \/ DoneToMain))

C11_Witness ==
    /\ NoTermReceived /\ recvd["HUP"] >= 1 /\ forwarded["HUP"] >= 1
    /\ wpc = "end" /\ terminated /\ exitStatus = 0

\* C12: once the relay has taken a termination signal at time termT, the
\* supervisor is never still running after termT + 5 + 1; if the child is still
\* running when the forced kill is sent, the kill is sent at termT + 5, and a
\* supervisor that ends with the child still running ends at termT + 6 with
\* status 1.
C12_BoundedShutdown ==
    TermHandled =>
        /\ now <= termT + Graceful + Forced
        /\ (rpc \in {"race2", "exit"} /\ ~ChildDead =>
                timerEnd = termT + Graceful + Forced)
        /\ (terminated /\ ~ChildDead =>
                /\ exitStatus = 1
                /\ nForcedKills = 1 /\ graceExpired
                /\ now = termT + Graceful + Forced)

C12_Witness ==
    /\ TermHandled /\ termT = 0 /\ horizon > Graceful + Forced
    /\ terminated /\ ~ChildDead /\ exitStatus = 1
    /\ nForcedKills = 1 /\ now = Graceful + Forced

\* C13: when the first select of the shutdown sequence ended by taking the
\* child-exited notification, the second select ends by taking it too, not by
\* its timer.
C13_LaterRaceObservesExit ==
    (Len(raceEnds) = 2 /\ raceEnds[1] = "done") => raceEnds[2] = "done"

\* C14: at most one sleep-then-signal cycle is outstanding; a Broadcast made
\* while the dispatcher sleeps changes neither the scheduled time nor the
\* cycle count; every fire happens delay after the wake-up that started its
\* cycle, a new cycle starts only after the previous fire, and a dispatcher
\* parked in Wait has no fire pending.
C14_SingleOutstandingCycle ==
    /\ [](/\ Len(fireTimes) <= Len(wakeTimes)
          /\ Len(wakeTimes) <= Len(fireTimes) + 1
          /\ Len(wakeTimes) <= nBroadcast
          /\ (dpc = "sleep" => /\ Len(wakeTimes) = Len(fireTimes) + 1
                               /\ sleepUntil = Last(wakeTimes) + delay)
          /\ (dpc = "wait" => Len(wakeTimes) = Len(fireTimes))
          /\ \A i \in 1..Len(fireTimes) : fireTimes[i] = wakeTimes[i] + delay
          /\ \A i \in 2..Len(wakeTimes) : wakeTimes[i] >= fireTimes[i - 1])
    /\ [][(dpc = "sleep" /\ nBroadcast' > nBroadcast) =>
              UNCHANGED <<dpc, sleepUntil, wakeTimes, fireTimes, sigTimes>>]_vars

C14_Witness ==
    /\ nBroadcast >= Len(wakeTimes) + 2
    /\ Last(sched0) > sched0[1] /\ WithinFirst(sched0, delay)
    /\ AllCalled /\ idleAtFirst
    /\ dpc = "wait" /\ now > Last(sched0)
    /\ Len(fireTimes) = 1 /\ fireTimes[1] = sched0[1] + delay

\* the Go scheduler runs every runnable goroutine and time passes: a step that
\* stays possible is eventually taken
SpecDebounceFair == SpecDebounce /\ WF_vars(NextDebounce)

Stream(s) == Len(s) = MaxBurst /\ \A i \in 1..(Len(s) - 1) : s[i + 1] = s[i] + 1

\* C15: under a stream of notify() calls the dispatcher keeps firing: every
\* wake-up is followed by its fire however many notify() calls come in
\* between, the fire is delay after the wake-up and never later, a stream that
\* goes on after the dispatcher has parked produces a fire, and a notify()
\* that finds the dispatcher parked starts one countdown.
C15_StreamStillFires ==
    /\ [](Len(wakeTimes) > Len(fireTimes) => <>(Len(fireTimes) >= Len(wakeTimes)))
    /\ (Last(sched0) > 0 => <>(Len(fireTimes) >= 1))
    /\ [](\A i \in 1..Len(fireTimes) : fireTimes[i] = wakeTimes[i] + delay)
    /\ [][(dpc = "wait" /\ nBroadcast' > nBroadcast) =>
              (dpc' = "woken" /\ wakeTimes' = Append(wakeTimes, now))]_vars

C15_Witness ==
    /\ Stream(sched0) /\ AllCalled
    /\ nBroadcast = MaxBurst
    /\ Len(fireTimes) >= 2
    /\ fireTimes[1] <= Last(sched0)

\* C16: every notify() is followed by a signal: when all notify() calls of
\* the run have been made and the dispatcher is parked in Wait, where no fire
\* is pending, no Broadcast is left without a signal sent after it.
C16_EveryNotifyReported ==
    (process = "live" /\ AllCalled /\ dpc = "wait") => ~unreported

\* C17: a signal outside the termination class has been sent to the child
\* when the relay reaches the switch, and the relay's step from the switch
\* changes nothing of the shutdown sequence: no timer, no forced kill, no
\* exit, no select on done; the relay is back at <-c for the next signal.
C17_OtherSignalOnlyForwarded ==
    /\ [](rpc = "switch" => forwarded[rsig] >= 1)
    /\ [][(rpc = "switch" /\ ~TermClass(rsig) /\ rpc' # rpc) =>
              /\ rpc' = "recv"
              /\ UNCHANGED <<timerEnd, nGraceTimers, nForcedKills, graceExpired,
                             raceEnds, termT, recvq, terminated, exitStatus>>]_vars

C17_Witness ==
    /\ forwarded["HUP"] >= 2
    /\ NoTermReceived
    /\ rpc = "recv" /\ chanC = <<>>
    /\ nGraceTimers = 0 /\ nForcedKills = 0 /\ ~terminated

\* C18: every signal of the debouncer belongs to a wake-up of its own, made
\* by a Broadcast that found the dispatcher parked, at least delay before the
\* signal; so no Broadcast, no signal, and never more signals than Broadcasts.
C18_NoSpuriousSignal ==
    /\ Len(sigTimes) <= Len(wakeTimes)
    /\ Len(wakeTimes) <= nBroadcast
    /\ Len(sigTimes) <= nBroadcast
    /\ (nBroadcast = 0 => sigTimes = <<>> /\ dpc \in {"top", "wait"})
    /\ \A i \in 1..Len(sigTimes) : sigTimes[i] >= wakeTimes[i] + delay
    /\ \A i \in 1..(Len(wakeTimes) - 1) : wakeTimes[i] <= wakeTimes[i + 1]
    /\ (dpc \in {"woken", "sleep"} => Len(wakeTimes) = Len(fireTimes) + 1)

C18_Witness ==
    /\ nBroadcast = MaxInputs
    /\ Len(sigTimes) >= 1 /\ Len(sigTimes) < nBroadcast
    /\ dpc = "wait"

\* C19: a step that sends a signal to the exited child (debouncer fire,
\* relayed signal or forced kill) does what the same step does with a running
\* child and nothing more: the supervisor does not end, no goroutine stops,
\* no timer is started, the relay and the dispatcher move on to their next
\* statement.
C19_DeadChildSignalSwallowed ==
    /\ [](dpc # "crashed")
    /\ [][deadSignals' > deadSignals =>
              /\ ~terminated' /\ exitStatus' = exitStatus
              /\ nGraceTimers' = nGraceTimers
              /\ cpc' = cpc /\ wpc' = wpc /\ mainPc' = mainPc
              /\ \/ rpc = "forward" /\ rpc' = "switch" /\ dpc' = dpc
                 \/ rpc = "kill" /\ rpc' = "race2" /\ dpc' = dpc
                 \/ dpc = "sleep" /\ dpc' = "top" /\ rpc' = rpc]_vars

C19_Witness ==
    /\ deadSignals = 3
    /\ Len(sigTimes) = 1 /\ Total(forwarded) = 1 /\ nForcedKills = 1
    /\ ~terminated

\* C20: taking a watcher error makes no Broadcast and changes nothing of the
\* debouncer, the relay or the shutdown sequence; the aggregator stays in its
\* loop, and every event taken, before or after an error, renames included,
\* gets its one Broadcast.
C20_WatcherErrorNonFatal ==
    /\ [](/\ cpc[Aggregator] \in {"idle", "broadcast"}
          /\ nEvents = nBroadcast + (IF cpc[Aggregator] = "broadcast" THEN 1 ELSE 0)
          /\ evAfterErr <= nEvents)
    /\ [][nErrors' > nErrors =>
              UNCHANGED <<cpc, debVars, nEvents, nRewatch, evOp, relayVars, endVars,
                          deadSignals, unreported, termT, raceEnds, evAfterErr>>]_vars

C20_Witness ==
    /\ nErrors >= 1
    /\ evAfterErr = 2 /\ nEvents = 2 /\ nRewatch >= 1
    /\ nBroadcast = 2 /\ cpc[Aggregator] = "idle"
    /\ ~terminated

====
